---- MODULE Spec2Model ----
(***************************************************************************)
(* NVHook (renderdoc/driver/ihv/nv/nvapi_hooks.cpp): the hooks RenderDoc   *)
(* installs on nvapi_QueryInterface and NvEncodeAPICreateInstance, the     *)
(* local handlers handed out for the hooked NvAPI identifiers, and the     *)
(* nvEncRegisterResource handler patched into the encoder table.           *)
(*                                                                         *)
(* Pointers are integers: NULL is 0, the vendor's functions, the hooks'    *)
(* own handlers, device objects and resource handles live in disjoint      *)
(* ranges.  Identifiers are the hexadecimal literals of the source, kept   *)
(* as strings because several of them exceed 2^31-1.                       *)
(***************************************************************************)
EXTENDS Integers, Sequences, FiniteSets, TLC

----------------------------------------------------------------------------
(* Bounds of the model *)

\* number of distinct non-null pointers the vendor resolver can hand out
NumRealPtrs == 2
\* calls of nvapi_QueryInterface_hook in one run of SpecResolve
MaxCalls == 2
\* calls in one run of SpecDevice and of SpecEncoder
MaxDeviceCalls == 2
MaxEncoderCalls == 3
\* single denied resolutions of one run of SpecDeny
MaxDenials == 12
\* application threads that call nvapi_QueryInterface_hook at the same time
NumThreads == 2
\* calls in one run of SpecRaceCapture and of SpecRaceDeny
MaxRaceCalls == 3
MaxRaceDenials == 11

----------------------------------------------------------------------------
(* Program constants *)

NULL == 0

\* range of the C++ int that is the static counter of the denial branch
INT_MAX == 2147483647
INT_MIN == (-2147483647) - 1

\* NVAPI_FUNCS(): the HOOK_NVAPI entries, in the order of the macro
HookedFunctions ==
  << "NvAPI_D3D11_CreateDevice",
     "NvAPI_D3D11_CreateDeviceAndSwapChain",
     "NvAPI_D3D11_IsNvShaderExtnOpCodeSupported",
     "NvAPI_D3D11_SetNvShaderExtnSlot",
     "NvAPI_D3D11_SetNvShaderExtnSlotLocalThread",
     "NvAPI_D3D12_IsNvShaderExtnOpCodeSupported",
     "NvAPI_D3D12_SetNvShaderExtnSlotSpace",
     "NvAPI_D3D12_SetNvShaderExtnSlotSpaceLocalThread" >>

HookedNames == { HookedFunctions[i] : i \in 1..Len(HookedFunctions) }

\* the case labels HOOK_NVAPI expands to inside nvapi_QueryInterface_hook
HookCase ==
  [ NvAPI_D3D11_CreateDevice                        |-> "0x6a16d3a0",
    NvAPI_D3D11_CreateDeviceAndSwapChain            |-> "0xbb939ee5",
    NvAPI_D3D11_IsNvShaderExtnOpCodeSupported       |-> "0x5f68da40",
    NvAPI_D3D11_SetNvShaderExtnSlot                 |-> "0x8e90bb9f",
    NvAPI_D3D11_SetNvShaderExtnSlotLocalThread      |-> "0x0e6482a0",
    NvAPI_D3D12_IsNvShaderExtnOpCodeSupported       |-> "0x3dfacec8",
    NvAPI_D3D12_SetNvShaderExtnSlotSpace            |-> "0xac2dfeb5",
    NvAPI_D3D12_SetNvShaderExtnSlotSpaceLocalThread |-> "0x43d867c0" ]

HookIDs == { HookCase[f] : f \in HookedNames }

\* the function a hooked identifier belongs to
HookOf(ID) == CHOOSE f \in HookedNames : HookCase[f] = ID

\* the case labels WHITELIST_NVAPI expands to: the four of NVAPI_FUNCS() and
\* the three unknown_func entries of the switch
WhitelistIDs ==
  { "0x0150e828", "0xd22bdd7e", "0x6c2d048c", "0x01053fa5",
    "0xad298d3f", "0x33c7358c", "0x593e8644" }

\* identifiers the switch has no case for: one the vendor's static list
\* names and one it does not
ListedUnknownID == "0xe5ac921f"
UnlistedUnknownID == "0x12345678"
UnknownIDs == { ListedUnknownID, UnlistedUnknownID }

IDs == HookIDs \cup WhitelistIDs \cup UnknownIDs

\* &fname_hook: the addresses of the local handlers
HookAddr(f) == 100 + (CHOOSE i \in 1..Len(HookedFunctions) : HookedFunctions[i] = f)

HookAddrs == { HookAddr(f) : f \in HookedNames }

\* what the vendor's nvapi_QueryInterface can return
RealPtrs == 1..NumRealPtrs

\* a null const char * of the lookup table
NoName == "(null)"

\* nvapi_interface_table: the vendor's static list, function -> ID
nvapi_interface_table ==
  { <<HookCase[f], f>> : f \in HookedNames } \cup
  { <<"0x0150e828", "NvAPI_Initialize">>,
    <<"0xd22bdd7e", "NvAPI_Unload">>,
    <<"0x6c2d048c", "NvAPI_GetErrorMessage">>,
    <<"0x01053fa5", "NvAPI_GetInterfaceVersionString">>,
    <<ListedUnknownID, "NvAPI_EnumPhysicalGPUs">> }

----------------------------------------------------------------------------
(* Devices, as the handlers see them *)

\* largest slot and space number an application passes
MaxSlot == 1

\* the application's device pointers: the two wrapped devices RenderDoc
\* created and the two real devices underneath them
WrappedDevices == { "WrappedID3D11Device", "WrappedID3D12Device" }
RealDevices == { "ID3D11Device", "ID3D12Device" }
Devices == WrappedDevices \cup RealDevices

\* pDev->QueryInterface(__uuidof(INVAPID3DDevice), &nvapiDev): SUCCEEDED only
\* for RenderDoc's own wrapped devices, without a change of reference count
IsINVAPID3DDevice(pDev) == pDev \in WrappedDevices

\* INVAPID3DDevice::GetReal
GetReal(nvapiDev) ==
  IF nvapiDev = "WrappedID3D11Device" THEN "ID3D11Device" ELSE "ID3D12Device"

\* real->QueryInterface(__uuidof(ID3D12Device), &dev)
IsID3D12Device(real) == real = "ID3D12Device"

\* NvShaderOpcode values an application asks about
OpCodes == { 1, 12, 20 }

\* SupportedOpcode((NvShaderOpcode)opCode): the opcodes RenderDoc handles
SupportedOpcode(opCode) == opCode \in { 12, 13, 20 }

\* NvAPI_Status values of the vendor's functions
VendorStatus == { "NVAPI_OK", "NVAPI_ERROR" }
NVAPI_INVALID_POINTER == "NVAPI_INVALID_POINTER"

\* ~0U, the bit pattern 0xffffffff, written as the int it is in 32 bits
NoSpace == -1

Slots == 0..MaxSlot
Spaces == 0..MaxSlot

\* the slot state of a wrapped device before any SetShaderExtUAV
NoExtUAV == [ space |-> NoSpace, reg |-> NoSpace ]

\* INVAPID3DDevice::SetShaderExtUAV(space, reg, global): the wrapper keeps the
\* register and space, in its global or its thread-local record
SetShaderExtUAV(ext, nvapiDev, space, reg, global) ==
  IF global
    THEN [ ext EXCEPT ![nvapiDev].global = [ space |-> space, reg |-> reg ] ]
    ELSE [ ext EXCEPT ![nvapiDev].local = [ space |-> space, reg |-> reg ] ]

----------------------------------------------------------------------------
(* Device creation and the encoder, as the hooks see them *)

\* real creation calls CreateD3D11_Internal makes at most in one call
MaxAttempts == 2
\* vendor functions nvEncRegisterResource can be, and wrapped resources
NumEncPtrs == 2
NumResources == 1

HResults == { "S_OK", "E_FAIL" }

\* the surface arguments of a creation call: a swap chain description and
\* the place for the swap chain, each of them possibly NULL
SwapChainDescs == { NULL, 301 }
SwapChainOuts == { NULL, 302 }

\* the sequences of results the real creation function gives to the calls
\* CreateD3D11_Internal makes of it
Attempts == UNION { [ 1..n -> HResults ] : n \in 0..MaxAttempts }

NV_ENC_SUCCESS == 0
NV_ENC_ERR_INVALID_PTR == 6
EncStatus == { NV_ENC_SUCCESS, NV_ENC_ERR_INVALID_PTR, 8 }

NV_ENC_INPUT_RESOURCE_TYPE_DIRECTX == 0
ResourceTypes == 0..3

\* const uint32_t expectedVersion = 7 << 28 | 8 << 1 | 1 << 24 | 2 << 16;
\* the shifts bind tighter than |, and the four terms share no bit
expectedVersion == 7 * 2^28 + 8 * 2^1 + 1 * 2^24 + 2 * 2^16

\* the version tags an application passes: the expected one and 0x71081002
Versions == { expectedVersion, 1896353794 }

\* the vendor's nvEncRegisterResource implementations
EncPtrs == 201..(200 + NumEncPtrs)

\* &NvEncodeAPIRegisterResource_hook
RegisterResourceHookAddr == 100 + Len(HookedFunctions) + 1

\* resource handles: wrapped D3D11 resources, and handles RenderDoc does not
\* know (a CUDA pointer, a GL texture, an unwrapped resource)
WrappedResources == 401..(400 + NumResources)
ForeignResources == { 601 }
Handles == { NULL } \cup WrappedResources \cup ForeignResources

\* UnwrapDXResource(dxObject): the real resource of a wrapped one, NULL for
\* everything else
UnwrapDXResource(dxObject) ==
  IF dxObject \in WrappedResources THEN dxObject + 100 ELSE NULL

\* the encoder handles and the NV_ENC_REGISTER_RESOURCE structures an
\* application passes; NoParams is a null params pointer
Encoders == { NULL, 701 }
NoParams == [ null |-> TRUE ]
RegisterParams ==
  [ version : { 1 }, resourceType : ResourceTypes, resourceToRegister : Handles ]

----------------------------------------------------------------------------
(* State *)

VARIABLES
  funcptr,      \* HookedFunction<>::orig of each HOOK_NVAPI member of nvhooks
  nvapi_lookup, \* nvhooks.nvapi_lookup
  count,        \* static int count of nvapi_QueryInterface_hook
  enabled,      \* RenderDoc::Inst().IsVendorExtensionEnabled(VendorExtensions::NvAPI)
  returned,     \* the hooked functions whose handler address the application holds
  warnings,     \* "NvAPI disabled" warnings written to the log so far
  extUAV,       \* the shader extension slot state kept by each wrapped device
  functions,    \* the application's NV_ENCODE_API_FUNCTION_LIST
  real_nvEncRegisterResource,  \* nvhooks.real_nvEncRegisterResource
  refcount,     \* the COM reference count of each device object
  threads,      \* where each application thread is inside nvapi_QueryInterface_hook
  calls,        \* handler calls made so far
  last          \* the last handler call: its arguments, result and what it did

vars == << funcptr, nvapi_lookup, count, enabled, returned, warnings, extUAV,
          functions, real_nvEncRegisterResource, refcount, threads, calls, last >>

\* the state of the device handlers and of the encoder hooks
devvars == << extUAV, refcount >>
encvars == << functions, real_nvEncRegisterResource >>
\* the state of nvapi_QueryInterface_hook
qivars == << funcptr, nvapi_lookup, count, returned, warnings, threads >>

\* the application threads
Threads == 1..NumThreads

\* a thread outside the hook that holds no result of a call
Idle == [ pc |-> "idle", ID |-> "none", real |-> NULL, c |-> 0, ret |-> NULL ]

\* RegisterHooks(): the ID -> name table is filled from the static list
RegisterHooks ==
  [ ID \in { e[1] : e \in nvapi_interface_table } |->
      (CHOOSE e \in nvapi_interface_table : e[1] = ID)[2] ]

NoCall == [ fn |-> "none", args |-> << >>, ret |-> NULL, events |-> << >> ]

Init ==
  /\ funcptr = [ f \in HookedNames |-> NULL ]
  /\ nvapi_lookup = RegisterHooks
  /\ count = 0
  /\ enabled \in BOOLEAN
  /\ returned = {}
  /\ warnings = 0
  /\ extUAV = [ d \in WrappedDevices |-> [ global |-> NoExtUAV, local |-> NoExtUAV ] ]
  /\ functions = [ version |-> 0, nvEncRegisterResource |-> NULL ]
  /\ real_nvEncRegisterResource = NULL
  /\ refcount = [ d \in Devices |-> 1 ]
  /\ threads = [ t \in Threads |-> Idle ]
  /\ calls = 0
  /\ last = NoCall

----------------------------------------------------------------------------
(* nvapi_QueryInterface_hook *)

\* HookedFunction<>::SetFuncPtr: the member keeps the pointer it is given
SetFuncPtr(fp, f, ptr) == [ fp EXCEPT ![f] = ptr ]

\* std::unordered_map::operator[]: a key that is absent is inserted with a
\* value-initialised (null) mapped value
LookupInsert(lookup, ID) ==
  IF ID \in DOMAIN lookup
    THEN lookup
    ELSE [ k \in DOMAIN lookup \cup {ID} |-> IF k = ID THEN NoName ELSE lookup[k] ]

\* rdcstr name = cname ? cname : StringFormat::Fmt("0x%x", ID)
DisplayName(lookup, ID) ==
  IF ID \in DOMAIN lookup /\ lookup[ID] # NoName THEN lookup[ID] ELSE ID

\* count++ on an int: past INT_MAX the behaviour is undefined, and ovf is
\* the value the build leaves in the counter
Increment(c, ovf) == IF c = INT_MAX THEN ovf ELSE c + 1

\* two's-complement wrap-around, or the counter staying where it was
OverflowOutcomes == { INT_MIN, INT_MAX }

\* SwitchCase without the three unknown_func cases of the switch
SwitchCase_NoUnknownFunc(ID) ==
  IF ID \in HookIDs THEN "HOOK_NVAPI"
  ELSE IF ID \in { "0x0150e828", "0xd22bdd7e", "0x6c2d048c", "0x01053fa5" }
    THEN "WHITELIST_NVAPI"
  ELSE "default"

\* switch(ID): which kind of case label the identifier reaches
SwitchCase(ID) ==
  IF ID \in HookIDs THEN "HOOK_NVAPI"
  ELSE IF ID \in WhitelistIDs THEN "WHITELIST_NVAPI"
  ELSE "default"

\* CaptureReal capturing nothing
CaptureReal_Skipped(fp, f, real) == fp

\* CaptureReal keeping the pointer of the first resolution
CaptureReal_FirstOnly(fp, f, real) ==
  IF fp[f] = NULL THEN SetFuncPtr(fp, f, real) ELSE fp

\* case ID of HOOK_NVAPI: nvhooks.fname.SetFuncPtr(real)
CaptureReal(fp, f, real) == SetFuncPtr(fp, f, real)

\* if(count < 10) RDCWARN(...)
WarnAllowed(cnt) == cnt < 10

\* the call of the real resolver, first event of every call of the hook
RealResolve(ID, real) ==
  [ op |-> "real", fn |-> "nvapi_QueryInterface", ID |-> ID, ret |-> real ]

\* The hook once the real resolver has returned a non-null pointer: the switch
\* and, for an identifier without a case, the policy branch.
\* The result holds the return value, the new member state and the events
\* of the call in order.
Dispatch(ID, real, fp, lookup, cnt, en, ovf) ==
  CASE SwitchCase(ID) = "HOOK_NVAPI" ->
         [ ret |-> HookAddr(HookOf(ID)),
           funcptr |-> CaptureReal(fp, HookOf(ID), real),
           lookup |-> lookup, count |-> cnt,
           events |-> << RealResolve(ID, real),
                         [ op |-> "SetFuncPtr", fn |-> HookOf(ID), ptr |-> real,
                           was |-> fp[HookOf(ID)] ] >> ]
    [] SwitchCase(ID) = "WHITELIST_NVAPI" ->
         [ ret |-> real, funcptr |-> fp, lookup |-> lookup, count |-> cnt,
           events |-> << RealResolve(ID, real) >> ]
    [] OTHER ->
         LET lookup2 == LookupInsert(lookup, ID)
             name == DisplayName(lookup2, ID)
         IN
         IF en THEN
           [ ret |-> real, funcptr |-> fp, lookup |-> lookup2, count |-> cnt,
             events |-> << RealResolve(ID, real),
                           [ op |-> "RDCDEBUG", name |-> name, ptr |-> real ] >> ]
         ELSE
           [ ret |-> NULL, funcptr |-> fp, lookup |-> lookup2,
             count |-> Increment(cnt, ovf),
             events |-> << RealResolve(ID, real) >> \o
                        ( IF WarnAllowed(cnt)
                            THEN << [ op |-> "RDCWARN", name |-> name ] >>
                            ELSE << >> ) ]

\* the hook without its if(real == NULL) return real;
nvapi_QueryInterface_hook_NoNullCheck(ID, real, fp, lookup, cnt, en, ovf) ==
  Dispatch(ID, real, fp, lookup, cnt, en, ovf)

\* the hook remembering a denial: once the counter has counted one, an
\* identifier without a case gets null even after the policy was enabled
nvapi_QueryInterface_hook_DenialSticks(ID, real, fp, lookup, cnt, en, ovf) ==
  IF real = NULL
    THEN [ ret |-> real, funcptr |-> fp, lookup |-> lookup, count |-> cnt,
           events |-> << RealResolve(ID, real) >> ]
    ELSE LET r == Dispatch(ID, real, fp, lookup, cnt, en, ovf)
         IN IF SwitchCase(ID) = "default" /\ cnt > 0
              THEN [ r EXCEPT !.ret = NULL ] ELSE r

\* The whole hook.  real is what nvhooks.nvapi_QueryInterface()(ID) gave,
\* en the policy flag, ovf the outcome of an overflowing count++.
nvapi_QueryInterface_hook(ID, real, fp, lookup, cnt, en, ovf) ==
  IF real = NULL
    THEN [ ret |-> real, funcptr |-> fp, lookup |-> lookup, count |-> cnt,
           events |-> << RealResolve(ID, real) >> ]
    ELSE Dispatch(ID, real, fp, lookup, cnt, en, ovf)

\* the RDCWARN / RDCERR / RDCDEBUG lines among the events of a call
Logged(events, level) == { i \in 1..Len(events) : events[i].op = level }

\* One call of the hook by the application
QueryInterface(ID, real, ovf) ==
  LET r == nvapi_QueryInterface_hook(ID, real, funcptr, nvapi_lookup, count, enabled, ovf)
  IN
  /\ funcptr' = r.funcptr
  /\ nvapi_lookup' = r.lookup
  /\ count' = r.count
  /\ returned' = IF r.ret \in HookAddrs THEN returned \cup { HookOf(ID) } ELSE returned
  /\ warnings' = warnings + Cardinality(Logged(r.events, "RDCWARN"))
  /\ last' = [ fn |-> "nvapi_QueryInterface_hook", args |-> [ ID |-> ID ],
               ret |-> r.ret, events |-> r.events ]
  /\ UNCHANGED << enabled, threads, devvars, encvars >>

\* The user or the UI switches the vendor extension policy
SetVendorExtension ==
  /\ enabled' = ~enabled
  /\ last' = NoCall
  /\ UNCHANGED << qivars, devvars, encvars, calls >>

----------------------------------------------------------------------------
(* The capability-query handlers *)

\* what the vendor's IsNvShaderExtnOpCodeSupported does in one call: the
\* status it returns and whether and what it writes to *pSupported
VendorQueryOutcomes ==
  [ status : VendorStatus, writes : BOOLEAN, value : BOOLEAN ]

\* The call of the captured real capability query.  pSupported tells whether
\* the caller's pointer is non-null, before is what the caller's bool held;
\* supported is what it holds after the call.
RealQuery(fn, via, obj, opCode, pSupported, before, vendor) ==
  [ op |-> "real", fn |-> fn, via |-> via, obj |-> obj, opCode |-> opCode,
    pSupported |-> pSupported, ret |-> vendor.status,
    supported |-> IF pSupported /\ vendor.writes THEN vendor.value ELSE before ]

\* Restrict passing the vendor's answer on as it is
Restrict_VendorOnly(supported, opCode) == supported

\* *pSupported = (*pSupported && SupportedOpcode((NvShaderOpcode)opCode)) ? TRUE : FALSE
Restrict(supported, opCode) == supported /\ SupportedOpcode(opCode)

\* IUnknown::AddRef and IUnknown::Release
AddRef(rc, obj) == [ rc EXCEPT ![obj] = @ + 1 ]
Release(rc, obj) == [ rc EXCEPT ![obj] = @ - 1 ]

\* The reference counts after the events of a handler call: a QueryInterface
\* that succeeds hands out a counted reference, a Release gives one back.
\* The query for INVAPID3DDevice is no event: it counts nothing.
RECURSIVE RefCounts(_, _)
RefCounts(rc, events) ==
  IF events = << >>
    THEN rc
    ELSE LET e == Head(events)
         IN RefCounts( IF e.op = "QueryInterface" /\ e.ok THEN AddRef(rc, e.obj)
                       ELSE IF e.op = "Release" THEN Release(rc, e.obj)
                       ELSE rc,
                       Tail(events) )

\* the result of a capability query: written tells whether the handler
\* assigned *pSupported, supported what the caller's bool holds on return
NvAPI_D3D11_IsNvShaderExtnOpCodeSupported_hook(pDev, opCode, pSupported, before, vendor, via) ==
  IF IsINVAPID3DDevice(pDev)
    THEN LET call == RealQuery("NvAPI_D3D11_IsNvShaderExtnOpCodeSupported", via,
                               GetReal(pDev), opCode, pSupported, before, vendor)
         IN [ ret |-> call.ret,
              written |-> pSupported,
              supported |-> IF pSupported THEN Restrict(call.supported, opCode) ELSE before,
              events |-> << call >> ]
    ELSE [ ret |-> NVAPI_INVALID_POINTER, written |-> FALSE, supported |-> before,
           events |-> << >> ]

\* the D3D12 query keeping the device it acquired
NvAPI_D3D12_IsNvShaderExtnOpCodeSupported_hook_NoRelease(pDev, opCode, pSupported, before, vendor, via) ==
  IF IsINVAPID3DDevice(pDev)
    THEN LET real == GetReal(pDev)
             query == [ op |-> "QueryInterface", obj |-> real, iid |-> "ID3D12Device",
                        ok |-> IsID3D12Device(real) ]
         IN
         IF IsID3D12Device(real)
           THEN LET call == RealQuery("NvAPI_D3D12_IsNvShaderExtnOpCodeSupported", via,
                                      real, opCode, pSupported, before, vendor)
                IN [ ret |-> call.ret,
                     written |-> pSupported,
                     supported |-> IF pSupported THEN Restrict(call.supported, opCode)
                                                 ELSE before,
                     events |-> << query, call >> ]
           ELSE [ ret |-> NVAPI_INVALID_POINTER, written |-> FALSE, supported |-> before,
                  events |-> << query >> ]
    ELSE [ ret |-> NVAPI_INVALID_POINTER, written |-> FALSE, supported |-> before,
           events |-> << >> ]

NvAPI_D3D12_IsNvShaderExtnOpCodeSupported_hook(pDev, opCode, pSupported, before, vendor, via) ==
  IF IsINVAPID3DDevice(pDev)
    THEN LET real == GetReal(pDev)
             query == [ op |-> "QueryInterface", obj |-> real, iid |-> "ID3D12Device",
                        ok |-> IsID3D12Device(real) ]
         IN
         IF IsID3D12Device(real)
           THEN LET call == RealQuery("NvAPI_D3D12_IsNvShaderExtnOpCodeSupported", via,
                                      real, opCode, pSupported, before, vendor)
                IN [ ret |-> call.ret,
                     written |-> pSupported,
                     supported |-> IF pSupported THEN Restrict(call.supported, opCode)
                                                 ELSE before,
                     events |-> << query, call, [ op |-> "Release", obj |-> real ] >> ]
           ELSE [ ret |-> NVAPI_INVALID_POINTER, written |-> FALSE, supported |-> before,
                  events |-> << query >> ]
    ELSE [ ret |-> NVAPI_INVALID_POINTER, written |-> FALSE, supported |-> before,
           events |-> << >> ]

----------------------------------------------------------------------------
(* The slot-assignment handlers *)

\* the call of the captured real slot function; the D3D11 functions take no
\* space, and space is NoSpace in their calls
RealSetSlot(fn, via, obj, uavSlot, uavSpace, status) ==
  [ op |-> "real", fn |-> fn, via |-> via, obj |-> obj, uavSlot |-> uavSlot,
    uavSpace |-> uavSpace, ret |-> status ]

\* nvapiDev->SetShaderExtUAV(space, reg, global), as an event
Recorded(nvapiDev, space, reg, global) ==
  [ op |-> "SetShaderExtUAV", obj |-> nvapiDev, space |-> space, reg |-> reg,
    global |-> global ]

\* the handler without its test of the QueryInterface result
NvAPI_D3D11_SetNvShaderExtnSlot_hook_Unchecked(pDev, uavSlot, status, ext, via) ==
  [ ret |-> status,
    extUAV |-> IF pDev \in DOMAIN ext
                 THEN SetShaderExtUAV(ext, pDev, NoSpace, uavSlot, TRUE) ELSE ext,
    events |-> << RealSetSlot("NvAPI_D3D11_SetNvShaderExtnSlot", via, pDev, uavSlot,
                              NoSpace, status) >> ]

NvAPI_D3D11_SetNvShaderExtnSlot_hook(pDev, uavSlot, status, ext, via) ==
  IF IsINVAPID3DDevice(pDev)
    THEN [ ret |-> status,
           extUAV |-> SetShaderExtUAV(ext, pDev, NoSpace, uavSlot, TRUE),
           events |-> << RealSetSlot("NvAPI_D3D11_SetNvShaderExtnSlot", via,
                                     GetReal(pDev), uavSlot, NoSpace, status),
                         Recorded(pDev, NoSpace, uavSlot, TRUE) >> ]
    ELSE [ ret |-> NVAPI_INVALID_POINTER, extUAV |-> ext, events |-> << >> ]

NvAPI_D3D11_SetNvShaderExtnSlotLocalThread_hook(pDev, uavSlot, status, ext, via) ==
  IF IsINVAPID3DDevice(pDev)
    THEN [ ret |-> status,
           extUAV |-> SetShaderExtUAV(ext, pDev, NoSpace, uavSlot, FALSE),
           events |-> << RealSetSlot("NvAPI_D3D11_SetNvShaderExtnSlotLocalThread", via,
                                     GetReal(pDev), uavSlot, NoSpace, status),
                         Recorded(pDev, NoSpace, uavSlot, FALSE) >> ]
    ELSE [ ret |-> NVAPI_INVALID_POINTER, extUAV |-> ext, events |-> << >> ]

NvAPI_D3D12_SetNvShaderExtnSlotSpace_hook(pDev, uavSlot, uavSpace, status, ext, via) ==
  IF IsINVAPID3DDevice(pDev)
    THEN [ ret |-> status,
           extUAV |-> SetShaderExtUAV(ext, pDev, uavSpace, uavSlot, TRUE),
           events |-> << RealSetSlot("NvAPI_D3D12_SetNvShaderExtnSlotSpace", via,
                                     GetReal(pDev), uavSlot, uavSpace, status),
                         Recorded(pDev, uavSpace, uavSlot, TRUE) >> ]
    ELSE [ ret |-> NVAPI_INVALID_POINTER, extUAV |-> ext, events |-> << >> ]

\* the handler recording the slot only when the real call succeeded
NvAPI_D3D12_SetNvShaderExtnSlotSpaceLocalThread_hook_OnSuccess(pDev, uavSlot, uavSpace, status, ext, via) ==
  IF IsINVAPID3DDevice(pDev)
    THEN [ ret |-> status,
           extUAV |-> IF status = "NVAPI_OK"
                        THEN SetShaderExtUAV(ext, pDev, uavSpace, uavSlot, FALSE) ELSE ext,
           events |-> << RealSetSlot("NvAPI_D3D12_SetNvShaderExtnSlotSpaceLocalThread", via,
                                     GetReal(pDev), uavSlot, uavSpace, status) >> \o
                      ( IF status = "NVAPI_OK"
                          THEN << Recorded(pDev, uavSpace, uavSlot, FALSE) >> ELSE << >> ) ]
    ELSE [ ret |-> NVAPI_INVALID_POINTER, extUAV |-> ext, events |-> << >> ]

NvAPI_D3D12_SetNvShaderExtnSlotSpaceLocalThread_hook(pDev, uavSlot, uavSpace, status, ext, via) ==
  IF IsINVAPID3DDevice(pDev)
    THEN [ ret |-> status,
           extUAV |-> SetShaderExtUAV(ext, pDev, uavSpace, uavSlot, FALSE),
           events |-> << RealSetSlot("NvAPI_D3D12_SetNvShaderExtnSlotSpaceLocalThread", via,
                                     GetReal(pDev), uavSlot, uavSpace, status),
                         Recorded(pDev, uavSpace, uavSlot, FALSE) >> ]
    ELSE [ ret |-> NVAPI_INVALID_POINTER, extUAV |-> ext, events |-> << >> ]

----------------------------------------------------------------------------
(* The creation entry points *)

\* CreateD3D11_Internal(real, ..., pSwapChainDesc, ppSwapChain, ...): the
\* shared creation routine of the D3D11 hooks.  It calls real once for every
\* attempt it makes, with the surface arguments it was given, and returns the
\* result of the last attempt.  realCalls are the arguments and the result of
\* each of these calls.
CreateD3D11_Internal(pSwapChainDesc, ppSwapChain, attempts) ==
  [ ret |-> IF attempts = << >> THEN "E_FAIL" ELSE attempts[Len(attempts)],
    entered |-> [ op |-> "CreateD3D11_Internal", pSwapChainDesc |-> pSwapChainDesc,
                  ppSwapChain |-> ppSwapChain ],
    realCalls |-> [ i \in 1..Len(attempts) |->
                      [ pSwapChainDesc |-> pSwapChainDesc, ppSwapChain |-> ppSwapChain,
                        hr |-> attempts[i] ] ] ]

\* the lambda of NvAPI_D3D11_CreateDevice_hook: RDCASSERT, then the real
\* NvAPI_D3D11_CreateDevice, which has no surface parameter
CreateDevice_real(pSwapChainDesc, ppSwapChain, hr) ==
  [ op |-> "real", fn |-> "NvAPI_D3D11_CreateDevice",
    asserted |-> ( pSwapChainDesc = NULL /\ ppSwapChain = NULL ),
    surface |-> << >>, ret |-> hr ]

\* the lambda of NvAPI_D3D11_CreateDeviceAndSwapChain_hook
CreateDeviceAndSwapChain_real(pSwapChainDesc, ppSwapChain, hr) ==
  [ op |-> "real", fn |-> "NvAPI_D3D11_CreateDeviceAndSwapChain",
    asserted |-> TRUE,
    surface |-> << pSwapChainDesc, ppSwapChain >>, ret |-> hr ]

\* the device-only entry point handing a swap chain pointer on
NvAPI_D3D11_CreateDevice_hook_WithSurface(attempts) ==
  LET r == CreateD3D11_Internal(NULL, 302, attempts)
  IN [ ret |-> r.ret,
       events |-> << r.entered >> \o
                  [ i \in DOMAIN r.realCalls |->
                      CreateDevice_real(r.realCalls[i].pSwapChainDesc,
                                        r.realCalls[i].ppSwapChain, r.realCalls[i].hr) ] ]

NvAPI_D3D11_CreateDevice_hook(attempts) ==
  LET r == CreateD3D11_Internal(NULL, NULL, attempts)
  IN [ ret |-> r.ret,
       events |-> << r.entered >> \o
                  [ i \in DOMAIN r.realCalls |->
                      CreateDevice_real(r.realCalls[i].pSwapChainDesc,
                                        r.realCalls[i].ppSwapChain, r.realCalls[i].hr) ] ]

NvAPI_D3D11_CreateDeviceAndSwapChain_hook(pSwapChainDesc, ppSwapChain, attempts) ==
  LET r == CreateD3D11_Internal(pSwapChainDesc, ppSwapChain, attempts)
  IN [ ret |-> r.ret,
       events |-> << r.entered >> \o
                  [ i \in DOMAIN r.realCalls |->
                      CreateDeviceAndSwapChain_real(r.realCalls[i].pSwapChainDesc,
                                                    r.realCalls[i].ppSwapChain,
                                                    r.realCalls[i].hr) ] ]

----------------------------------------------------------------------------
(* The encoder hooks *)

\* what the vendor's NvEncodeAPICreateInstance does in one call: its status
\* and, on success, the registration function it puts into the table
VendorCreateOutcomes == [ status : EncStatus, ptr : { NULL } \cup EncPtrs ]

\* the table after the real NvEncodeAPICreateInstance has run on it
AfterCreate(hasTable, table, vendor) ==
  IF hasTable /\ vendor.status = NV_ENC_SUCCESS
    THEN [ table EXCEPT !.nvEncRegisterResource = vendor.ptr ]
    ELSE table

\* ShouldPatch giving up on a table of another version
ShouldPatch_ExpectedVersionOnly(ret, hasTable, table) ==
  /\ ret = NV_ENC_SUCCESS /\ hasTable /\ table.nvEncRegisterResource # NULL
  /\ table.version = expectedVersion

\* ShouldPatch without its test of the status
ShouldPatch_IgnoringStatus(ret, hasTable, table) ==
  hasTable /\ table.nvEncRegisterResource # NULL

\* if(ret == NV_ENC_SUCCESS && functions && functions->nvEncRegisterResource)
ShouldPatch(ret, hasTable, table) ==
  ret = NV_ENC_SUCCESS /\ hasTable /\ table.nvEncRegisterResource # NULL

\* the hook capturing the field after it has overwritten it
NvEncodeAPICreateInstance_hook_PatchFirst(hasTable, table, vendor, realReg) ==
  LET after == AfterCreate(hasTable, table, vendor)
      call == [ op |-> "real", fn |-> "NvEncodeAPICreateInstance", hasTable |-> hasTable,
                table |-> after, ret |-> vendor.status ]
      patched == [ after EXCEPT !.nvEncRegisterResource = RegisterResourceHookAddr ]
  IN
  IF ShouldPatch(vendor.status, hasTable, after)
    THEN [ ret |-> vendor.status,
           functions |-> patched,
           real |-> patched.nvEncRegisterResource,
           events |-> << call >> \o
                      ( IF after.version # expectedVersion
                          THEN << [ op |-> "RDCWARN", version |-> after.version ] >>
                          ELSE << >> ) ]
    ELSE [ ret |-> vendor.status, functions |-> after, real |-> realReg,
           events |-> << call >> ]

\* hasTable tells whether functions is non-null, table is the structure it
\* points to, realReg is nvhooks.real_nvEncRegisterResource
NvEncodeAPICreateInstance_hook(hasTable, table, vendor, realReg) ==
  LET after == AfterCreate(hasTable, table, vendor)
      call == [ op |-> "real", fn |-> "NvEncodeAPICreateInstance", hasTable |-> hasTable,
                table |-> after, ret |-> vendor.status ]
  IN
  IF ShouldPatch(vendor.status, hasTable, after)
    THEN [ ret |-> vendor.status,
           functions |-> [ after EXCEPT !.nvEncRegisterResource = RegisterResourceHookAddr ],
           real |-> after.nvEncRegisterResource,
           events |-> << call >> \o
                      ( IF after.version # expectedVersion
                          THEN << [ op |-> "RDCWARN", version |-> after.version ] >>
                          ELSE << >> ) \o
                      ( IF realReg = NULL \/ realReg = after.nvEncRegisterResource
                          THEN << >>
                          ELSE << [ op |-> "RDCASSERT", was |-> realReg ] >> ) ]
    ELSE [ ret |-> vendor.status, functions |-> after, real |-> realReg,
           events |-> << call >> ]

\* the call of the captured real nvEncRegisterResource
RealRegister(via, encoder, params, status) ==
  [ op |-> "real", fn |-> "nvEncRegisterResource", via |-> via, encoder |-> encoder,
    params |-> params, ret |-> status ]

\* if(!encoder || !params || params->resourceType != NV_ENC_INPUT_RESOURCE_TYPE_DIRECTX)
PassUnchanged(encoder, params) ==
  \/ encoder = NULL
  \/ params = NoParams
  \/ params.resourceType # NV_ENC_INPUT_RESOURCE_TYPE_DIRECTX

\* Translated without the fallback to the caller's handle
Translated_NoFallback(origHandle) == UnwrapDXResource(origHandle)

\* the handle the real function is given for a DirectX resource
Translated(origHandle) ==
  IF UnwrapDXResource(origHandle) = NULL THEN origHandle ELSE UnwrapDXResource(origHandle)

\* Restore forgotten: the translated handle stays in the structure
Restore_Missing(params, origHandle) == params

\* params->resourceToRegister = origHandle, after the real call
Restore(params, origHandle) == [ params EXCEPT !.resourceToRegister = origHandle ]

\* params in the result is the structure the caller finds after the call
NvEncodeAPIRegisterResource_hook(encoder, params, status, realReg) ==
  IF realReg = NULL
    THEN [ ret |-> NV_ENC_ERR_INVALID_PTR, params |-> params,
           events |-> << [ op |-> "RDCERR", what |-> "called without hooking" ] >> ]
  ELSE IF PassUnchanged(encoder, params)
    THEN [ ret |-> status, params |-> params,
           events |-> << RealRegister(realReg, encoder, params, status) >> ]
  ELSE
    LET origHandle == params.resourceToRegister
        during == [ params EXCEPT !.resourceToRegister = Translated(origHandle) ]
    IN [ ret |-> status, params |-> Restore(during, origHandle),
         events |-> ( IF UnwrapDXResource(origHandle) = NULL
                        THEN << [ op |-> "RDCERR", what |-> "Failed to unwrap DX handle" ] >>
                        ELSE << >> ) \o
                    << RealRegister(realReg, encoder, during, status) >> ]

----------------------------------------------------------------------------
(* Calls of the device handlers by the application.  A handler is called   *)
(* through the address nvapi_QueryInterface_hook returned for it.          *)

\* one more call, of at most limit in the run
Step(limit) == calls < limit /\ calls' = calls + 1

\* a call of a capability query, r its result
QueryCall(fn, pDev, opCode, pSupported, before, r) ==
  /\ last' = [ fn |-> fn,
               args |-> [ pDev |-> pDev, opCode |-> opCode, pSupported |-> pSupported,
                          before |-> before ],
               ret |-> r.ret, written |-> r.written, supported |-> r.supported,
               events |-> r.events ]
  /\ refcount' = RefCounts(refcount, r.events)
  /\ UNCHANGED << qivars, enabled, extUAV, encvars >>

Call_D3D11_IsNvShaderExtnOpCodeSupported ==
  /\ Step(MaxDeviceCalls)
  /\ "NvAPI_D3D11_IsNvShaderExtnOpCodeSupported" \in returned
  /\ \E pDev \in Devices, opCode \in OpCodes, pSupported \in BOOLEAN, before \in BOOLEAN,
        vendor \in VendorQueryOutcomes :
       QueryCall("NvAPI_D3D11_IsNvShaderExtnOpCodeSupported_hook",
                 pDev, opCode, pSupported, before,
                 NvAPI_D3D11_IsNvShaderExtnOpCodeSupported_hook(
                   pDev, opCode, pSupported, before, vendor,
                   funcptr["NvAPI_D3D11_IsNvShaderExtnOpCodeSupported"]))

Call_D3D12_IsNvShaderExtnOpCodeSupported ==
  /\ Step(MaxDeviceCalls)
  /\ "NvAPI_D3D12_IsNvShaderExtnOpCodeSupported" \in returned
  /\ \E pDev \in Devices, opCode \in OpCodes, pSupported \in BOOLEAN, before \in BOOLEAN,
        vendor \in VendorQueryOutcomes :
       QueryCall("NvAPI_D3D12_IsNvShaderExtnOpCodeSupported_hook",
                 pDev, opCode, pSupported, before,
                 NvAPI_D3D12_IsNvShaderExtnOpCodeSupported_hook(
                   pDev, opCode, pSupported, before, vendor,
                   funcptr["NvAPI_D3D12_IsNvShaderExtnOpCodeSupported"]))

\* a call of a slot assignment, r its result
SlotCall(fn, pDev, uavSlot, uavSpace, r) ==
  /\ extUAV' = r.extUAV
  /\ refcount' = RefCounts(refcount, r.events)
  /\ last' = [ fn |-> fn,
               args |-> [ pDev |-> pDev, uavSlot |-> uavSlot, uavSpace |-> uavSpace ],
               ret |-> r.ret, events |-> r.events ]
  /\ UNCHANGED << qivars, enabled, encvars >>

Call_D3D11_SetNvShaderExtnSlot ==
  /\ Step(MaxDeviceCalls)
  /\ "NvAPI_D3D11_SetNvShaderExtnSlot" \in returned
  /\ \E pDev \in Devices, uavSlot \in Slots, status \in VendorStatus :
       SlotCall("NvAPI_D3D11_SetNvShaderExtnSlot_hook", pDev, uavSlot, NoSpace,
                NvAPI_D3D11_SetNvShaderExtnSlot_hook(
                  pDev, uavSlot, status, extUAV, funcptr["NvAPI_D3D11_SetNvShaderExtnSlot"]))

Call_D3D11_SetNvShaderExtnSlotLocalThread ==
  /\ Step(MaxDeviceCalls)
  /\ "NvAPI_D3D11_SetNvShaderExtnSlotLocalThread" \in returned
  /\ \E pDev \in Devices, uavSlot \in Slots, status \in VendorStatus :
       SlotCall("NvAPI_D3D11_SetNvShaderExtnSlotLocalThread_hook", pDev, uavSlot, NoSpace,
                NvAPI_D3D11_SetNvShaderExtnSlotLocalThread_hook(
                  pDev, uavSlot, status, extUAV,
                  funcptr["NvAPI_D3D11_SetNvShaderExtnSlotLocalThread"]))

Call_D3D12_SetNvShaderExtnSlotSpace ==
  /\ Step(MaxDeviceCalls)
  /\ "NvAPI_D3D12_SetNvShaderExtnSlotSpace" \in returned
  /\ \E pDev \in Devices, uavSlot \in Slots, uavSpace \in Spaces, status \in VendorStatus :
       SlotCall("NvAPI_D3D12_SetNvShaderExtnSlotSpace_hook", pDev, uavSlot, uavSpace,
                NvAPI_D3D12_SetNvShaderExtnSlotSpace_hook(
                  pDev, uavSlot, uavSpace, status, extUAV,
                  funcptr["NvAPI_D3D12_SetNvShaderExtnSlotSpace"]))

Call_D3D12_SetNvShaderExtnSlotSpaceLocalThread ==
  /\ Step(MaxDeviceCalls)
  /\ "NvAPI_D3D12_SetNvShaderExtnSlotSpaceLocalThread" \in returned
  /\ \E pDev \in Devices, uavSlot \in Slots, uavSpace \in Spaces, status \in VendorStatus :
       SlotCall("NvAPI_D3D12_SetNvShaderExtnSlotSpaceLocalThread_hook", pDev, uavSlot, uavSpace,
                NvAPI_D3D12_SetNvShaderExtnSlotSpaceLocalThread_hook(
                  pDev, uavSlot, uavSpace, status, extUAV,
                  funcptr["NvAPI_D3D12_SetNvShaderExtnSlotSpaceLocalThread"]))

Call_D3D11_CreateDevice ==
  /\ Step(MaxDeviceCalls)
  /\ "NvAPI_D3D11_CreateDevice" \in returned
  /\ \E attempts \in Attempts :
       LET r == NvAPI_D3D11_CreateDevice_hook(attempts)
       IN last' = [ fn |-> "NvAPI_D3D11_CreateDevice_hook", args |-> << >>,
                    ret |-> r.ret, events |-> r.events ]
  /\ UNCHANGED << qivars, enabled, devvars, encvars >>

Call_D3D11_CreateDeviceAndSwapChain ==
  /\ Step(MaxDeviceCalls)
  /\ "NvAPI_D3D11_CreateDeviceAndSwapChain" \in returned
  /\ \E pSwapChainDesc \in SwapChainDescs, ppSwapChain \in SwapChainOuts,
        attempts \in Attempts :
       LET r == NvAPI_D3D11_CreateDeviceAndSwapChain_hook(pSwapChainDesc, ppSwapChain,
                                                          attempts)
       IN last' = [ fn |-> "NvAPI_D3D11_CreateDeviceAndSwapChain_hook",
                    args |-> [ pSwapChainDesc |-> pSwapChainDesc,
                               ppSwapChain |-> ppSwapChain ],
                    ret |-> r.ret, events |-> r.events ]
  /\ UNCHANGED << qivars, enabled, devvars, encvars >>

\* The application calls the hooked export NvEncodeAPICreateInstance, with a
\* null pointer or with its table, whose version field it has filled in
Call_NvEncodeAPICreateInstance ==
  /\ Step(MaxEncoderCalls)
  /\ \E hasTable \in BOOLEAN, version \in Versions, vendor \in VendorCreateOutcomes :
       LET table == IF hasTable THEN [ functions EXCEPT !.version = version ] ELSE functions
           r == NvEncodeAPICreateInstance_hook(hasTable, table, vendor,
                                               real_nvEncRegisterResource)
       IN /\ functions' = r.functions
          /\ real_nvEncRegisterResource' = r.real
          /\ last' = [ fn |-> "NvEncodeAPICreateInstance_hook",
                       args |-> [ hasTable |-> hasTable, table |-> table ],
                       ret |-> r.ret, events |-> r.events ]
  /\ UNCHANGED << qivars, enabled, devvars >>

\* The application registers a resource through the function pointer it
\* finds in its table, which is the handler once the table is patched
Call_nvEncRegisterResource ==
  /\ Step(MaxEncoderCalls)
  /\ functions.nvEncRegisterResource = RegisterResourceHookAddr
  /\ \E encoder \in Encoders, params \in { NoParams } \cup RegisterParams,
        status \in EncStatus :
       LET r == NvEncodeAPIRegisterResource_hook(encoder, params, status,
                                                 real_nvEncRegisterResource)
       IN last' = [ fn |-> "NvEncodeAPIRegisterResource_hook",
                    args |-> [ encoder |-> encoder, params |-> params ],
                    ret |-> r.ret, params |-> r.params, events |-> r.events ]
  /\ UNCHANGED << qivars, enabled, devvars, encvars >>

----------------------------------------------------------------------------
(* The runs of the program *)

\* the outcomes of count++ in a call that finds the counter at cnt
Overflow(cnt) == IF cnt = INT_MAX THEN OverflowOutcomes ELSE { INT_MAX }

\* The application resolves an identifier
Resolve ==
  /\ Step(MaxCalls)
  /\ \E ID \in IDs, real \in {NULL} \cup RealPtrs, ovf \in Overflow(count) :
       QueryInterface(ID, real, ovf)

\* The application resolves one of the hooked functions and so gets hold of
\* the address of its handler
ResolveHooked ==
  /\ Step(MaxDeviceCalls)
  /\ \E ID \in HookIDs, real \in {NULL} \cup RealPtrs : QueryInterface(ID, real, INT_MAX)

\* resolutions, and changes of the policy
NextResolve ==
  \/ Resolve
  \/ SetVendorExtension

SpecResolve == Init /\ [][NextResolve]_vars

\* the hooked functions resolved and their handlers called
NextDevice ==
  \/ ResolveHooked
  \/ Call_D3D11_IsNvShaderExtnOpCodeSupported
  \/ Call_D3D12_IsNvShaderExtnOpCodeSupported
  \/ Call_D3D11_SetNvShaderExtnSlot
  \/ Call_D3D11_SetNvShaderExtnSlotLocalThread
  \/ Call_D3D12_SetNvShaderExtnSlotSpace
  \/ Call_D3D12_SetNvShaderExtnSlotSpaceLocalThread
  \/ Call_D3D11_CreateDevice
  \/ Call_D3D11_CreateDeviceAndSwapChain

SpecDevice == Init /\ [][NextDevice]_vars

\* the encoder created and resources registered
NextEncoder ==
  \/ Call_NvEncodeAPICreateInstance
  \/ Call_nvEncRegisterResource

SpecEncoder == Init /\ [][NextEncoder]_vars

\* Runs of denied resolutions: the application resolves identifiers the
\* switch has no case for, one call at a time, and the policy may be switched.
ResolveUnknown ==
  /\ Step(MaxDenials)
  /\ \E ID \in UnknownIDs, real \in {NULL} \cup RealPtrs, ovf \in Overflow(count) :
       QueryInterface(ID, real, ovf)

\* length of the polling loop of ResolveDeniedRepeatedly: long enough to
\* bring a counter of at most 2 to INT_MAX
RepeatCounts == { INT_MAX - 2 }

\* n consecutive calls of the hook for the same unrecognised identifier with
\* the policy disabled and a non-null real pointer, none of which overflows
\* the counter: each call adds one to count, and the calls that find
\* count < 10 warn.  last is the n-th of these calls.
ResolveDeniedRepeatedly ==
  \E ID \in UnknownIDs, real \in RealPtrs, n \in RepeatCounts :
    /\ ~enabled
    /\ count >= 0
    /\ n <= INT_MAX - count
    /\ LET r == nvapi_QueryInterface_hook(ID, real, funcptr, nvapi_lookup,
                                          count + (n - 1), enabled, INT_MAX)
       IN
       /\ count' = r.count
       /\ nvapi_lookup' = r.lookup
       /\ funcptr' = r.funcptr
       /\ warnings' = warnings +
                      ( IF WarnAllowed(count)
                          THEN ( IF WarnAllowed(count + (n - 1)) THEN n ELSE 10 - count )
                          ELSE 0 )
       /\ last' = [ fn |-> "nvapi_QueryInterface_hook", args |-> [ ID |-> ID ],
                    ret |-> r.ret, events |-> r.events ]
    /\ UNCHANGED << enabled, returned, threads, calls, devvars, encvars >>

NextDeny ==
  \/ ResolveUnknown
  \/ ResolveDeniedRepeatedly
  \/ SetVendorExtension

SpecDeny == Init /\ [][NextDeny]_vars

----------------------------------------------------------------------------
(* nvapi_QueryInterface_hook called by several threads at once.  The hook   *)
(* takes no lock: a call is a sequence of steps, each reading or writing    *)
(* one of the shared members, and the steps of the threads interleave.      *)
(* Two threads that write the same member race; the member is a pointer or  *)
(* an int, which the build stores whole, so a race leaves one of the values *)
(* written, as the interleaving of the two writes does.                     *)

\* the hooked identifiers the threads of SpecRaceCapture resolve
RacedIDs == { HookCase["NvAPI_D3D11_CreateDevice"],
              HookCase["NvAPI_D3D12_IsNvShaderExtnOpCodeSupported"] }

\* a thread is free to call the hook
Outside(t) == threads[t].pc \in { "idle", "done" }

\* void *real = nvhooks.nvapi_QueryInterface()(ID); if(real == NULL) return real;
\* and the switch reaching a HOOK_NVAPI case
Thread_ResolveHooked ==
  /\ Step(MaxRaceCalls)
  /\ \E t \in Threads, ID \in RacedIDs, real \in {NULL} \cup RealPtrs :
       /\ Outside(t)
       /\ threads' = [ threads EXCEPT ![t] =
                         [ pc |-> IF real = NULL THEN "return" ELSE "SetFuncPtr",
                           ID |-> ID, real |-> real, c |-> 0, ret |-> NULL ] ]
  /\ UNCHANGED << funcptr, nvapi_lookup, count, returned, warnings, enabled,
                  devvars, encvars, last >>

\* nvhooks.fname.SetFuncPtr(real), by a thread inside a HOOK_NVAPI case
Thread_SetFuncPtr ==
  /\ \E t \in Threads :
       /\ threads[t].pc = "SetFuncPtr"
       /\ LET r == Dispatch(threads[t].ID, threads[t].real, funcptr, nvapi_lookup,
                            count, enabled, INT_MAX)
          IN /\ funcptr' = r.funcptr
             /\ threads' = [ threads EXCEPT ![t].pc = "return", ![t].ret = r.ret ]
  /\ UNCHANGED << nvapi_lookup, count, returned, warnings, enabled, calls,
                  devvars, encvars, last >>

\* return: the application has the pointer
Thread_Return ==
  /\ \E t \in Threads :
       /\ threads[t].pc = "return"
       /\ threads' = [ threads EXCEPT ![t].pc = "done" ]
       /\ returned' = IF threads[t].ret \in HookAddrs
                         THEN returned \cup { HookOf(threads[t].ID) } ELSE returned
  /\ UNCHANGED << funcptr, nvapi_lookup, count, warnings, enabled, calls,
                  devvars, encvars, last >>

NextRaceCapture ==
  \/ Thread_ResolveHooked
  \/ Thread_SetFuncPtr
  \/ Thread_Return

SpecRaceCapture == Init /\ [][NextRaceCapture]_vars

\* A thread calls the hook for an identifier without a case: the real
\* resolver, the switch, the read of the name table and the test of the
\* policy flag.  None of these reads or writes the counter, so they are one
\* step; the thread returns from it unless the resolution is denied.  The
\* denied branch uses neither ID nor real again, and what a thread got for
\* an identifier without a case is not kept once it has returned.
Thread_ResolveUnknown ==
  /\ Step(MaxRaceDenials)
  /\ \E t \in Threads, ID \in UnknownIDs, real \in {NULL} \cup RealPtrs :
       /\ Outside(t)
       /\ LET r == nvapi_QueryInterface_hook(ID, real, funcptr, nvapi_lookup, count,
                                             enabled, INT_MAX)
              denied == real # NULL /\ ~enabled
          IN /\ nvapi_lookup' = r.lookup
             /\ threads' = [ threads EXCEPT ![t] =
                               IF denied THEN [ Idle EXCEPT !.pc = "test" ] ELSE Idle ]
  /\ UNCHANGED << funcptr, count, returned, warnings, enabled, devvars, encvars, last >>

\* if(count < 10) RDCWARN(...): the counter is read and tested
Thread_Test ==
  /\ \E t \in Threads :
       /\ threads[t].pc = "test"
       /\ warnings' = warnings + ( IF WarnAllowed(count) THEN 1 ELSE 0 )
       /\ threads' = [ threads EXCEPT ![t].pc = "load", ![t].c = count ]
  /\ UNCHANGED << funcptr, nvapi_lookup, count, returned, enabled, calls,
                  devvars, encvars, last >>

\* count++, first half: the counter is read again
Thread_Load ==
  /\ \E t \in Threads :
       /\ threads[t].pc = "load"
       /\ threads' = [ threads EXCEPT ![t].pc = "store", ![t].c = count ]
  /\ UNCHANGED << funcptr, nvapi_lookup, count, returned, warnings, enabled, calls,
                  devvars, encvars, last >>

\* count++, second half, and return NULL: the value read plus one is
\* written.  A build that keeps the value of the test in a register writes
\* without the second read.
Thread_Store ==
  /\ \E t \in Threads :
       /\ threads[t].pc \in { "load", "store" }
       /\ count' = Increment(threads[t].c, INT_MAX)
       /\ threads' = [ threads EXCEPT ![t] = Idle ]
  /\ UNCHANGED << funcptr, nvapi_lookup, returned, warnings, enabled, calls,
                  devvars, encvars, last >>

NextRaceDeny ==
  \/ Thread_ResolveUnknown
  \/ Thread_Test
  \/ Thread_Load
  \/ Thread_Store
  \/ SetVendorExtension

SpecRaceDeny == Init /\ [][NextRaceDeny]_vars

\* every call the application can make
Next == NextResolve \/ NextDevice \/ NextEncoder \/ NextDeny
          \/ NextRaceCapture \/ NextRaceDeny

Spec == Init /\ [][Next]_vars

----------------------------------------------------------------------------
(* Properties of nvapi_QueryInterface_hook *)

IsResolve(l) == l.fn = "nvapi_QueryInterface_hook"

\* what the real resolver returned in the call l
RealOf(l) == l.events[1].ret

\* C1: a resolution of an always-allowed identifier returns exactly what the
\* real resolver returned, whatever the policy flag, and writes neither the
\* captured pointers nor the denial counter.
C1_WhitelistPassThrough ==
  [][ ( calls' # calls /\ IsResolve(last') /\ last'.args.ID \in WhitelistIDs )
        => /\ last'.ret = RealOf(last')
           /\ funcptr' = funcptr
           /\ count' = count ]_vars

C1_Witness ==
  /\ IsResolve(last)
  /\ last.args.ID = "0x593e8644"
  /\ ~enabled
  /\ RealOf(last) # NULL
  /\ last.ret = RealOf(last)

C3_AtMostTenWarnings == warnings <= 10

\* C10: when the real resolver returns null the hook returns null and
\* changes nothing: no pointer is captured, no handler address is returned,
\* nothing is logged, the counter and the lookup table stay as they were.
C10_NullPassThrough ==
  [][ ( calls' # calls /\ IsResolve(last') /\ RealOf(last') = NULL )
        => /\ last'.ret = NULL
           /\ funcptr' = funcptr
           /\ returned' = returned
           /\ count' = count
           /\ warnings' = warnings
           /\ nvapi_lookup' = nvapi_lookup
           /\ Len(last'.events) = 1 ]_vars

\* a null resolution of an unrecognised identifier with the policy disabled,
\* and one of a hooked identifier whose pointer was captured before
C10_Witness ==
  /\ IsResolve(last)
  /\ RealOf(last) = NULL
  /\ last.ret = NULL
  /\ \/ last.args.ID \in UnknownIDs /\ ~enabled
     \/ last.args.ID \in HookIDs /\ funcptr[HookOf(last.args.ID)] # NULL

----------------------------------------------------------------------------
(* Properties of the device handlers *)

QueryHandlers ==
  { "NvAPI_D3D11_IsNvShaderExtnOpCodeSupported_hook",
    "NvAPI_D3D12_IsNvShaderExtnOpCodeSupported_hook" }

GlobalSlotHandlers ==
  { "NvAPI_D3D11_SetNvShaderExtnSlot_hook", "NvAPI_D3D12_SetNvShaderExtnSlotSpace_hook" }

LocalSlotHandlers ==
  { "NvAPI_D3D11_SetNvShaderExtnSlotLocalThread_hook",
    "NvAPI_D3D12_SetNvShaderExtnSlotSpaceLocalThread_hook" }

SlotHandlers == GlobalSlotHandlers \cup LocalSlotHandlers

\* the calls of captured real functions among the events of the call l
RealCalls(l) == { i \in 1..Len(l.events) : l.events[i].op = "real" }

\* the call l of a capability query delegated to the real function with the
\* real object, returned its status, and reported the vendor's answer
\* restricted to the opcodes RenderDoc supports
Delegated(l) ==
  /\ Cardinality(RealCalls(l)) = 1
  /\ \A i \in RealCalls(l) :
       /\ l.events[i].obj = GetReal(l.args.pDev)
       /\ l.events[i].obj \in RealDevices
       /\ l.events[i].opCode = l.args.opCode
       /\ l.ret = l.events[i].ret
       /\ l.written
       /\ l.supported = ( l.events[i].supported /\ l.args.opCode \in { 12, 13, 20 } )

\* the call l refused the device: invalid pointer, no real call, nothing
\* written to the caller's bool
Refused(l) ==
  /\ l.ret = NVAPI_INVALID_POINTER
  /\ RealCalls(l) = {}
  /\ ~l.written
  /\ l.supported = l.args.before

\* C4 as stated: both capability queries, called on a wrapped device with a
\* place for the result, delegate to the real function with the real object,
\* return its status and report real-answer AND SupportedOpcode.
C4_WrappedQueryDelegates ==
  ( last.fn \in QueryHandlers /\ last.args.pDev \in WrappedDevices /\ last.args.pSupported )
    => Delegated(last)

\* C4 as amended: the D3D11 query does so on every wrapped device; the D3D12
\* query does so when the wrapped device's real object is an ID3D12Device,
\* and otherwise returns the invalid pointer status without calling the real
\* function and without writing the result.
C4_QueryDelegatesOnItsOwnDevice ==
  ( last.fn \in QueryHandlers /\ last.args.pDev \in WrappedDevices /\ last.args.pSupported )
    => IF last.fn = "NvAPI_D3D12_IsNvShaderExtnOpCodeSupported_hook"
          /\ last.args.pDev # "WrappedID3D12Device"
         THEN Refused(last)
         ELSE Delegated(last)

\* the D3D12 query on a wrapped D3D12 device: the vendor says yes to an opcode
\* RenderDoc does not support and fails the call
C4_Witness ==
  /\ last.fn = "NvAPI_D3D12_IsNvShaderExtnOpCodeSupported_hook"
  /\ last.args.pDev = "WrappedID3D12Device"
  /\ last.args.pSupported
  /\ last.args.opCode = 1
  /\ \E i \in RealCalls(last) : last.events[i].supported
  /\ ~last.supported
  /\ last.ret = "NVAPI_ERROR"

\* C5: a capability query or slot assignment called on a device that is not
\* one of RenderDoc's wrappers returns the invalid pointer status, calls no
\* real function, changes no wrapper's slot state and does not write the
\* caller's bool.
C5_NotAWrapper ==
  [][ ( calls' # calls /\ last'.fn \in QueryHandlers \cup SlotHandlers
        /\ last'.args.pDev \notin WrappedDevices )
        => /\ last'.ret = NVAPI_INVALID_POINTER
           /\ last'.events = << >>
           /\ extUAV' = extUAV
           /\ ( last'.fn \in QueryHandlers
                  => ~last'.written /\ last'.supported = last'.args.before ) ]_vars

\* the global D3D11 slot assignment called on a real, unwrapped device
C5_Witness ==
  /\ last.fn = "NvAPI_D3D11_SetNvShaderExtnSlot_hook"
  /\ last.args.pDev = "ID3D11Device"
  /\ last.ret = NVAPI_INVALID_POINTER

\* C6: a slot assignment on a wrapped device first calls the real function
\* with the real object and the caller's slot (and space), then records the
\* slot and the space (no space for the D3D11 functions) on the wrapper,
\* global for the plain functions and thread-local for the LocalThread ones,
\* whatever the real call returned, and returns the real call's status.
C6_SlotRecordedAfterDelegation ==
  ( last.fn \in SlotHandlers /\ last.args.pDev \in WrappedDevices )
    => LET isGlobal == last.fn \in GlobalSlotHandlers
           space == IF last.fn \in { "NvAPI_D3D11_SetNvShaderExtnSlot_hook",
                                     "NvAPI_D3D11_SetNvShaderExtnSlotLocalThread_hook" }
                      THEN NoSpace ELSE last.args.uavSpace
           kept == IF isGlobal THEN extUAV[last.args.pDev].global
                               ELSE extUAV[last.args.pDev].local
       IN /\ Len(last.events) = 2
          /\ last.events[1].op = "real"
          /\ last.events[1].obj = GetReal(last.args.pDev)
          /\ last.events[1].uavSlot = last.args.uavSlot
          /\ last.events[1].uavSpace = space
          /\ last.events[1].via = funcptr[last.events[1].fn]
          /\ last.events[2] = [ op |-> "SetShaderExtUAV", obj |-> last.args.pDev,
                                space |-> space, reg |-> last.args.uavSlot,
                                global |-> isGlobal ]
          /\ kept = [ space |-> space, reg |-> last.args.uavSlot ]
          /\ last.ret = last.events[1].ret

\* a thread-local D3D12 assignment whose real call failed
C6_Witness ==
  /\ last.fn = "NvAPI_D3D12_SetNvShaderExtnSlotSpaceLocalThread_hook"
  /\ last.args.pDev = "WrappedID3D12Device"
  /\ last.ret = "NVAPI_ERROR"
  /\ last.args.uavSlot = 1
  /\ last.args.uavSpace = 0
  /\ extUAV["WrappedID3D12Device"].local = [ space |-> 0, reg |-> 1 ]
  /\ extUAV["WrappedID3D12Device"].global = NoExtUAV

\* C7: the device-only entry point enters CreateD3D11_Internal with both
\* surface arguments absent, its delegate's assertion holds whenever it is
\* run and the real NvAPI_D3D11_CreateDevice gets no surface argument; the
\* combined entry point, given a swap chain description, hands it and the
\* swap chain out-parameter unchanged to CreateD3D11_Internal and to the real
\* NvAPI_D3D11_CreateDeviceAndSwapChain.
C7_SurfaceArguments ==
  /\ last.fn = "NvAPI_D3D11_CreateDevice_hook"
       => /\ last.events[1] = [ op |-> "CreateD3D11_Internal", pSwapChainDesc |-> NULL,
                                ppSwapChain |-> NULL ]
          /\ \A i \in RealCalls(last) :
               /\ last.events[i].fn = "NvAPI_D3D11_CreateDevice"
               /\ last.events[i].asserted
               /\ last.events[i].surface = << >>
  /\ ( last.fn = "NvAPI_D3D11_CreateDeviceAndSwapChain_hook"
       /\ last.args.pSwapChainDesc # NULL )
       => /\ last.events[1] = [ op |-> "CreateD3D11_Internal",
                                pSwapChainDesc |-> last.args.pSwapChainDesc,
                                ppSwapChain |-> last.args.ppSwapChain ]
          /\ \A i \in RealCalls(last) :
               /\ last.events[i].fn = "NvAPI_D3D11_CreateDeviceAndSwapChain"
               /\ last.events[i].surface =
                    << last.args.pSwapChainDesc, last.args.ppSwapChain >>

\* the device-only entry point reaching the real function twice
C7_Witness ==
  /\ last.fn = "NvAPI_D3D11_CreateDevice_hook"
  /\ Cardinality(RealCalls(last)) = 2
  /\ last.ret = "S_OK"

----------------------------------------------------------------------------
(* Properties of the encoder hooks *)

IsRegister(l) == l.fn = "NvEncodeAPIRegisterResource_hook"

\* the structure the real nvEncRegisterResource was given in the call l
Given(l) == l.events[Len(l.events)].params

IsDirectX(params) == params.resourceType = 0

\* C8 as stated: with a real registration pointer captured, a resource of
\* another kind than DirectX reaches the real function unchanged; for a
\* DirectX resource the handle the real function sees differs from the
\* caller's, and the caller finds its structure as it was; the real status is
\* returned.  Stated for the calls with a non-null encoder and a non-null
\* handle.
C8_DirectXHandleDiffers ==
  ( /\ IsRegister(last) /\ RealCalls(last) # {} /\ last.args.params # NoParams
    /\ last.args.encoder # NULL
    /\ last.args.params.resourceToRegister # NULL )
    => /\ last.ret = last.events[Len(last.events)].ret
       /\ ~IsDirectX(last.args.params) => Given(last) = last.args.params
       /\ IsDirectX(last.args.params)
            => /\ Given(last).resourceToRegister # last.args.params.resourceToRegister
               /\ last.params = last.args.params

\* C8 as amended: the handle differs during the real call when the encoder
\* is non-null and the handle is a wrapped resource, and is then the
\* unwrapped resource; a DirectX resource with a null encoder or with a
\* handle that does not unwrap reaches the real function unchanged.  In
\* every case the caller finds its structure as it was and gets the real
\* function's status.
C8_RegisterFrame ==
  ( IsRegister(last) /\ RealCalls(last) # {} /\ last.args.params # NoParams )
    => LET handle == last.args.params.resourceToRegister
           unwraps == handle \in WrappedResources
       IN /\ Cardinality(RealCalls(last)) = 1
          /\ last.ret = last.events[Len(last.events)].ret
          /\ last.params = last.args.params
          /\ ( IsDirectX(last.args.params) /\ last.args.encoder # NULL /\ unwraps )
               => /\ Given(last) = [ last.args.params EXCEPT
                                       !.resourceToRegister = handle + 100 ]
                  /\ Given(last).resourceToRegister # handle
          /\ ~( IsDirectX(last.args.params) /\ last.args.encoder # NULL /\ unwraps )
               => Given(last) = last.args.params

\* a wrapped DirectX resource registered, the real function failing
C8_Witness ==
  /\ IsRegister(last)
  /\ last.args.encoder # NULL
  /\ last.args.params # NoParams
  /\ IsDirectX(last.args.params)
  /\ last.args.params.resourceToRegister \in WrappedResources
  /\ Given(last).resourceToRegister # last.args.params.resourceToRegister
  /\ last.params = last.args.params
  /\ last.ret = 8

\* C9: when the real NvEncodeAPICreateInstance succeeds and leaves a non-null
\* nvEncRegisterResource in the table, then whatever the table's version the
\* real pointer is captured and the field is replaced by the handler; a
\* version other than the expected one adds exactly one warning, and the
\* status is returned as it came.
C9_PatchedWhateverTheVersion ==
  ( /\ last.fn = "NvEncodeAPICreateInstance_hook"
    /\ last.events[1].ret = NV_ENC_SUCCESS
    /\ last.events[1].hasTable
    /\ last.events[1].table.nvEncRegisterResource # NULL )
    => /\ real_nvEncRegisterResource = last.events[1].table.nvEncRegisterResource
       /\ functions.nvEncRegisterResource = RegisterResourceHookAddr
       /\ functions.version = last.args.table.version
       /\ last.ret = NV_ENC_SUCCESS
       /\ Cardinality(Logged(last.events, "RDCWARN")) =
            ( IF last.args.table.version = 1895956496 THEN 0 ELSE 1 )

\* a table of version 0x71081002 patched
C9_Witness ==
  /\ last.fn = "NvEncodeAPICreateInstance_hook"
  /\ last.ret = NV_ENC_SUCCESS
  /\ last.args.hasTable
  /\ last.args.table.version = 1896353794
  /\ functions.nvEncRegisterResource = RegisterResourceHookAddr
  /\ real_nvEncRegisterResource \in EncPtrs
  /\ Cardinality(Logged(last.events, "RDCWARN")) = 1

----------------------------------------------------------------------------
(* Further properties of nvapi_QueryInterface_hook *)

\* the call l found no case for its identifier and got a pointer from the
\* real resolver
Unrecognised(l) ==
  IsResolve(l) /\ l.args.ID \in UnknownIDs /\ RealOf(l) # NULL

\* C11: a resolution of an identifier in neither the hook set nor the
\* always-allow set, for which the real resolver gave a non-null pointer,
\* returns that pointer when the policy flag is enabled at the call and null
\* when it is disabled, whatever the counter holds and whatever was denied or
\* toggled before.
C11_ResultFollowsFlag ==
  [][ Unrecognised(last')
        => last'.ret = ( IF enabled THEN RealOf(last') ELSE NULL ) ]_vars

\* an unrecognised identifier allowed after ten and more denials
C11_Witness ==
  /\ Unrecognised(last)
  /\ enabled
  /\ count >= 10
  /\ warnings = 10
  /\ last.ret = RealOf(last)

\* C12 as stated: the identifier-to-name table never changes after
\* RegisterHooks; no call of nvapi_QueryInterface_hook adds, removes or
\* changes an entry.
C12_LookupReadOnly ==
  [][ /\ DOMAIN nvapi_lookup' = DOMAIN nvapi_lookup
      /\ \A ID \in DOMAIN nvapi_lookup : nvapi_lookup'[ID] = nvapi_lookup[ID] ]_vars

\* the call l is a denied resolution
Denied(l, en) == Unrecognised(l) /\ ~en

\* C20 as stated: a resolution of X leaves the captured pointer of every
\* other hooked function as it was; a resolution of an always-allowed or
\* unrecognised identifier leaves every captured pointer and the captured
\* encoder registration pointer as they were; the counter is one more after
\* a denied resolution, which an int holding INT_MAX cannot be, and unchanged
\* after every other resolution.
C20_ResolveFrame ==
  [][ ( calls' # calls /\ IsResolve(last') )
        => /\ \A f \in HookedNames :
                HookCase[f] # last'.args.ID => funcptr'[f] = funcptr[f]
           /\ last'.args.ID \notin HookIDs
                => /\ funcptr' = funcptr
                   /\ real_nvEncRegisterResource' = real_nvEncRegisterResource
           /\ IF Denied(last', enabled)
                THEN count < INT_MAX /\ count' = count + 1
                ELSE count' = count ]_vars

----------------------------------------------------------------------------
(* Further properties of the encoder hooks *)

IsCreate(l) == l.fn = "NvEncodeAPICreateInstance_hook"

\* the call l registered a DirectX resource whose handle the unwrap lookup
\* was asked for and did not know
UnwrapFailed(l) ==
  /\ IsRegister(l)
  /\ l.args.encoder # NULL
  /\ l.args.params # NoParams
  /\ IsDirectX(l.args.params)
  /\ UnwrapDXResource(l.args.params.resourceToRegister) = NULL

\* the "called without hooking" errors of the call l
WithoutHooking(l) ==
  { i \in Logged(l.events, "RDCERR") : l.events[i].what = "called without hooking" }

\* the call l logged one unwrap error, then called the real registration
\* function once with the caller's handle, and returned its status
FellBack(l) ==
  /\ Cardinality(Logged(l.events, "RDCERR")) = 1
  /\ WithoutHooking(l) = {}
  /\ Cardinality(RealCalls(l)) = 1
  /\ Given(l) = l.args.params
  /\ l.ret = l.events[Len(l.events)].ret

\* C15 as stated: when the handle of a DirectX registration does not unwrap,
\* an error is logged, the real function is called exactly once with the
\* caller's original handle, which is never a null handle, the handler does
\* not fail the call itself, and the real function's status is returned.
C15_FallbackNeverNull ==
  UnwrapFailed(last)
    => /\ FellBack(last)
       /\ Given(last).resourceToRegister # NULL

\* C15 as amended: the same, with the handle the real function receives
\* being null exactly when the caller's own handle is null.
C15_FallbackPassesOriginal ==
  UnwrapFailed(last)
    => /\ FellBack(last)
       /\ ( Given(last).resourceToRegister = NULL
              <=> last.args.params.resourceToRegister = NULL )

\* a handle RenderDoc does not know, registered with the real function
\* failing
C15_Witness ==
  /\ UnwrapFailed(last)
  /\ last.args.params.resourceToRegister \in ForeignResources
  /\ Given(last).resourceToRegister \in ForeignResources
  /\ Cardinality(Logged(last.events, "RDCERR")) = 1
  /\ last.ret = 8

\* C17: when the real initializer does not report success, or the table
\* pointer is null, or the registration field is null after the real call,
\* the table stays as the real initializer left it, the captured real
\* registration pointer keeps its value, no version warning is logged and
\* the real initializer's status is returned.
C17_NoPatch ==
  [][ ( /\ calls' # calls
        /\ IsCreate(last')
        /\ \/ last'.events[1].ret # NV_ENC_SUCCESS
           \/ ~last'.args.hasTable
           \/ last'.events[1].table.nvEncRegisterResource = NULL )
        => /\ functions' = ( IF last'.args.hasTable THEN last'.events[1].table
                                                    ELSE functions )
           /\ real_nvEncRegisterResource' = real_nvEncRegisterResource
           /\ Logged(last'.events, "RDCWARN") = {}
           /\ last'.ret = last'.events[1].ret ]_vars

\* a failed initialization of a table of another version that was patched
\* before
C17_Witness ==
  /\ IsCreate(last)
  /\ last.ret = 8
  /\ last.args.hasTable
  /\ last.args.table.version # expectedVersion
  /\ last.args.table.nvEncRegisterResource = RegisterResourceHookAddr
  /\ functions = last.args.table
  /\ real_nvEncRegisterResource \in EncPtrs
  /\ Logged(last.events, "RDCWARN") = {}

\* C19: with a vendor initializer that writes its own registration pointer
\* into the table on each success, a table whose registration field holds the
\* handler always comes with a captured real pointer that is neither null
\* nor the handler; so a registration made through a patched table logs no
\* "called without hooking" error and calls the vendor function exactly once.
C19_PatchedTableDelegates ==
  /\ functions.nvEncRegisterResource = RegisterResourceHookAddr
       => /\ real_nvEncRegisterResource # NULL
          /\ real_nvEncRegisterResource # RegisterResourceHookAddr
  /\ IsRegister(last)
       => /\ WithoutHooking(last) = {}
          /\ Cardinality(RealCalls(last)) = 1
          /\ \A i \in RealCalls(last) :
               /\ last.events[i].via = real_nvEncRegisterResource
               /\ last.events[i].via \in EncPtrs

\* a second successful initialization, on a table that was patched already
\* and with another vendor function than the one captured before
C19_Witness ==
  /\ IsCreate(last)
  /\ last.ret = NV_ENC_SUCCESS
  /\ last.args.hasTable
  /\ last.args.table.nvEncRegisterResource = RegisterResourceHookAddr
  /\ functions.nvEncRegisterResource = RegisterResourceHookAddr
  /\ real_nvEncRegisterResource \in EncPtrs
  /\ Logged(last.events, "RDCASSERT") # {}

----------------------------------------------------------------------------
(* Reference counts *)

\* C14: no call of a capability query or of a slot assignment, on a wrapper
\* or on any other object, leaves a reference count other than it found it:
\* the reference the D3D12 query acquires on the real device is released
\* before it returns; and on an object that is not a wrapper the recovery
\* fails: invalid pointer status, no real call, no reference taken.
C14_ReferenceCountsKept ==
  [][ ( calls' # calls /\ last'.fn \in QueryHandlers \cup SlotHandlers )
        => /\ refcount' = refcount
           /\ last'.args.pDev \notin WrappedDevices
                => /\ last'.ret = NVAPI_INVALID_POINTER
                   /\ last'.events = << >> ]_vars

\* the D3D12 query on a wrapped D3D12 device: the real device was acquired,
\* passed to the real function, and released
C14_Witness ==
  /\ last.fn = "NvAPI_D3D12_IsNvShaderExtnOpCodeSupported_hook"
  /\ last.args.pDev = "WrappedID3D12Device"
  /\ Len(last.events) = 3
  /\ last.events[1].op = "QueryInterface"
  /\ last.events[1].ok
  /\ last.events[1].obj = "ID3D12Device"
  /\ last.events[3] = [ op |-> "Release", obj |-> "ID3D12Device" ]
  /\ refcount["ID3D12Device"] = 1

----------------------------------------------------------------------------
(* Properties of concurrent resolutions *)

\* the threads that have called the hook
Callers == { t \in Threads : threads[t].pc # "idle" }

\* every caller's latest call resolved the hooked function f, got the
\* pointer P from the real resolver, and has captured it
AllCaptured(f, P) ==
  /\ Cardinality(Callers) >= 2
  /\ \A t \in Callers :
       /\ threads[t].pc \in { "return", "done" }
       /\ threads[t].ID = HookCase[f]
       /\ threads[t].real = P

\* C13: when two or more threads resolve the same hooked identifier and the
\* real resolver gives each the same non-null pointer, then however their
\* steps interleave, once every one of them has captured, the captured
\* pointer is that pointer, not null and not the pointer of an earlier
\* resolution, and each thread returns the address of the local handler.
C13_RacedCaptureAgrees ==
  \A f \in HookedNames, P \in RealPtrs :
    AllCaptured(f, P)
      => /\ funcptr[f] = P
         /\ \A t \in Callers : threads[t].ret = HookAddr(f)

\* two threads inside the hook at once for the same identifier: both have
\* captured the same pointer and neither has returned
C13_Witness ==
  /\ threads[1].pc = "return"
  /\ threads[2].pc = "return"
  /\ threads[1].ID = threads[2].ID
  /\ threads[1].real # NULL
  /\ threads[1].real = threads[2].real
  /\ funcptr[HookOf(threads[1].ID)] = threads[1].real
  /\ threads[1].ret = HookAddr(HookOf(threads[1].ID))
  /\ threads[2].ret = threads[1].ret

\* C16 as stated: however the reads, tests and increments of the counter by
\* the denied threads interleave, a warning is written only while fewer than
\* ten have been written in the run.
C16_AtMostTenWarningsRaced ==
  [][ warnings' > warnings => warnings < 10 ]_vars

\* C18: in every state, whatever threads are inside the hook, a hooked
\* function whose handler address the application has been returned has a
\* non-null real pointer captured, so its handler has a function to
\* delegate to.
C18_ReturnedImpliesCaptured ==
  /\ \A f \in returned : funcptr[f] # NULL
  /\ \A t \in Threads :
       ( threads[t].pc = "done" /\ threads[t].ret \in HookAddrs )
         => funcptr[HookOf(threads[t].ID)] # NULL

\* the application holds a handler address while another thread is about to
\* capture another pointer for the same function
C18_Witness ==
  \E t \in Threads :
    /\ threads[t].pc = "SetFuncPtr"
    /\ HookOf(threads[t].ID) \in returned
    /\ funcptr[HookOf(threads[t].ID)] # NULL
    /\ funcptr[HookOf(threads[t].ID)] # threads[t].real

====
